---- MODULE Spec2Model ----
(***************************************************************************)
(* A model of doc/examples/asn1.cpp: the recursive BER/DER dumper.         *)
(*                                                                         *)
(* Bytes are naturals 0..255, byte strings and display strings are         *)
(* sequences of bytes (character codes); type labels are strings.          *)
(* decode() is a recursive C++ function: its activation records are the    *)
(* frames of `stack`, and one action is one segment of its loop between    *)
(* two calls (scanner call, dispatch of one object, return, unwinding).    *)
(* The library pieces the example calls (BER_Decoder, DER_Encoder, BigInt, *)
(* OID, ASN1_String, X509_Time, Hex_Encoder, Charset) are operators.       *)
(***************************************************************************)
EXTENDS Integers, Sequences, FiniteSets, TLC

VARIABLES input, pc, stack, out, err, exitcode, exc,
          visited, src, outAtThrow, readAtThrow, sibsAtThrow, steps

vars == <<input, pc, stack, out, err, exitcode, exc,
          visited, src, outAtThrow, readAtThrow, sibsAtThrow, steps>>

(***************************************************************************)
(* Program constants of asn1.cpp                                           *)
(***************************************************************************)
UTF8_TERMINAL == 1
INITIAL_LEVEL == 0
LIMIT == 128
BIN_LIMIT == 64
COLUMN == 50

(***************************************************************************)
(* enum ASN1_Tag (botan/asn1_obj.h): class bits and universal type numbers *)
(***************************************************************************)
UNIVERSAL == 0
CONSTRUCTED == 32
APPLICATION == 64
CONTEXT_SPECIFIC == 128
PRIVATE == 192
BOOLEAN_TAG == 1
INTEGER == 2
BIT_STRING == 3
OCTET_STRING == 4
NULL_TAG == 5
OBJECT_ID == 6
ENUMERATED == 10
SEQUENCE == 16
SET == 17
UTF8_STRING == 12
NUMERIC_STRING == 18
PRINTABLE_STRING == 19
T61_STRING == 20
IA5_STRING == 22
VISIBLE_STRING == 26
BMP_STRING == 30
UTC_TIME == 23
GENERALIZED_TIME == 24
NO_OBJECT == 65280

(***************************************************************************)
(* Bounds of the model                                                     *)
(***************************************************************************)
MaxNodes == 3
MaxValLen == 3

(***************************************************************************)
(* Bytes, bits and text                                                    *)
(***************************************************************************)
RECURSIVE BitAnd(_, _)
BitAnd(a, b) ==
  IF a = 0 \/ b = 0 THEN 0
  ELSE (a % 2) * (b % 2) + 2 * BitAnd(a \div 2, b \div 2)

RECURSIVE Pow2(_)
Pow2(n) == IF n = 0 THEN 1 ELSE 2 * Pow2(n - 1)

RECURSIVE Concat(_)
Concat(ss) ==
  IF Len(ss) = 0 THEN <<>>
  ELSE IF Len(ss) = 1 THEN ss[1]
  ELSE LET h == Len(ss) \div 2 IN
       Concat(SubSeq(ss, 1, h)) \o Concat(SubSeq(ss, h + 1, Len(ss)))

Drop(s, n) == SubSeq(s, n + 1, Len(s))

isgraph(c) == c >= 33 /\ c <= 126
isspace(c) == c = 32 \/ (c >= 9 /\ c <= 13)
isdigit(c) == c >= 48 /\ c <= 57

\* the not_text loops of decode (lines 141-145 and 197-201)
not_text(bytes) == \E j \in 1..Len(bytes) : ~isgraph(bytes[j]) /\ ~isspace(bytes[j])

HexDigit(d) == IF d < 10 THEN 48 + d ELSE 55 + d

\* Hex_Encoder: two upper-case hexadecimal digits per byte
Hex_Encoder(bytes) ==
  Concat([j \in 1..Len(bytes) |-> <<HexDigit(bytes[j] \div 16), HexDigit(bytes[j] % 16)>>])

\* Pipe((not_text) ? new Hex_Encoder : 0); process_msg; read_all_as_string
Pipe(hex, bytes) == IF hex THEN Hex_Encoder(bytes) ELSE bytes

RECURSIVE to_chars(_)
to_chars(n) == IF n < 10 THEN <<48 + n>> ELSE to_chars(n \div 10) \o <<48 + (n % 10)>>

\* to_string(u32bit) as a label fragment
to_string(n) == ToString(n)

(***************************************************************************)
(* DER_Encoder::add_object and BER_Decoder::get_next_object, for tag       *)
(* numbers below 31 and definite lengths                                   *)
(***************************************************************************)
encode_length(n) ==
  IF n < 128 THEN <<n>>
  ELSE IF n < 256 THEN <<129, n>>
  ELSE <<130, n \div 256, n % 256>>

add_object(type_tag, class_tag, value) ==
  <<class_tag + type_tag>> \o encode_length(Len(value)) \o value

RECURSIVE BigEndian(_)
BigEndian(bytes) ==
  IF bytes = <<>> THEN 0
  ELSE 256 * BigEndian(SubSeq(bytes, 1, Len(bytes) - 1)) + bytes[Len(bytes)]

NoObject == [type_tag |-> NO_OBJECT, class_tag |-> NO_OBJECT, value |-> <<>>]

\* decode_length: the number of length bytes and the length, or 0 bytes if
\* the length field is missing or corrupted
decode_length(stream, pos) ==
  IF pos + 2 > Len(stream) THEN [n |-> 0, len |-> 0]
  ELSE LET b == stream[pos + 2] IN
       IF b < 128 THEN [n |-> 1, len |-> b]
       ELSE LET k == b - 128 IN
            IF k = 0 \/ k > 4 \/ pos + 2 + k > Len(stream) THEN [n |-> 0, len |-> 0]
            ELSE [n |-> 1 + k, len |-> BigEndian(SubSeq(stream, pos + 3, pos + 2 + k))]

\* get_next_object: "none" at the end of the stream, "error" when the header
\* cannot be parsed or the declared length exceeds the remaining bytes
get_next_object(stream, pos) ==
  IF pos >= Len(stream) THEN [kind |-> "none", obj |-> NoObject, pos |-> pos]
  ELSE LET b == stream[pos + 1]
           l == decode_length(stream, pos)
           start == pos + 1 + l.n
       IN IF l.n = 0 \/ start + l.len > Len(stream)
          THEN [kind |-> "error", obj |-> NoObject, pos |-> pos]
          ELSE [kind |-> "obj",
                obj |-> [type_tag |-> b % 32, class_tag |-> b - (b % 32),
                         value |-> SubSeq(stream, start + 1, start + l.len)],
                pos |-> start + l.len]

(***************************************************************************)
(* BigInt: sign and magnitude (big-endian bytes without leading zeros)     *)
(***************************************************************************)
RECURSIVE StripZeros(_)
StripZeros(bytes) ==
  IF bytes # <<>> /\ bytes[1] = 0 THEN StripZeros(Tail(bytes)) ELSE bytes

\* for(j = size; j > 0; --j) if(value[j-1]--) break;
RECURSIVE SubOne(_)
SubOne(bytes) ==
  IF bytes = <<>> THEN <<>>
  ELSE LET n == Len(bytes) IN
       IF bytes[n] # 0 THEN [bytes EXCEPT ![n] = bytes[n] - 1]
       ELSE SubOne(SubSeq(bytes, 1, n - 1)) \o <<255>>

Invert(bytes) == [j \in 1..Len(bytes) |-> 255 - bytes[j]]

\* BER_Decoder::decode(BigInt&): DER two's complement to sign and magnitude
decode_BigInt(value) ==
  IF value = <<>> THEN [neg |-> FALSE, mag |-> <<>>]
  ELSE IF value[1] >= 128
       THEN [neg |-> TRUE, mag |-> StripZeros(Invert(SubOne(value)))]
       ELSE [neg |-> FALSE, mag |-> StripZeros(value)]

RECURSIVE BitLen(_)
BitLen(b) == IF b = 0 THEN 0 ELSE 1 + BitLen(b \div 2)

\* BigInt::bits(): the bit length of the magnitude
BigInt_bits(number) ==
  IF number.mag = <<>> THEN 0
  ELSE 8 * (Len(number.mag) - 1) + BitLen(number.mag[1])

\* BigInt::encode(n, base): the digits of the magnitude
BigInt_encode(number, base) ==
  IF base = "Decimal" THEN to_chars(BigEndian(number.mag))
  ELSE Hex_Encoder(number.mag)

\* the threshold off by one: 16-bit magnitudes rendered in hexadecimal
IntegerRepStrict(number) ==
  IF BigInt_bits(number) < 16
  THEN BigInt_encode(number, "Decimal")
  ELSE BigInt_encode(number, "Hexadecimal")

\* lines 170-174: if it's small, it's probably a number, not a hash
IntegerRep(number) ==
  IF BigInt_bits(number) <= 16
  THEN BigInt_encode(number, "Decimal")
  ELSE BigInt_encode(number, "Hexadecimal")

(***************************************************************************)
(* BIT STRING                                                              *)
(***************************************************************************)
\* BER_Decoder::decode(bits, BIT_STRING): the first byte counts unused bits
BitStringOk(value) == value # <<>> /\ value[1] < 8
decode_bits(value) == Tail(value)

\* the shift k in place of 7-k: each byte taken from its least significant bit
bit_set_of_lsb(bits) ==
  [i \in 1..(8 * Len(bits)) |->
     LET j == (i - 1) \div 8
         k == (i - 1) % 8
     IN (bits[Len(bits) - j] \div Pow2(k)) % 2 = 1]

\* lines 212-216: bit_set.push_back((bits[size-j-1] >> (7-k)) & 1), j outer, k inner
bit_set_of(bits) ==
  [i \in 1..(8 * Len(bits)) |->
     LET j == (i - 1) \div 8
         k == (i - 1) % 8
     IN (bits[Len(bits) - j] \div Pow2(7 - k)) % 2 = 1]

\* lines 218-226: the loop over j, from bit_set[size-1] down to bit_set[0]
RECURSIVE bit_str_loop(_, _, _)
bit_str_loop(bit_set, j, bit_str) ==
  IF j = Len(bit_set) THEN bit_str
  ELSE LET the_bit == bit_set[Len(bit_set) - j] IN
       IF ~the_bit /\ Len(bit_str) = 0
       THEN bit_str_loop(bit_set, j + 1, bit_str)
       ELSE bit_str_loop(bit_set, j + 1, bit_str \o <<IF the_bit THEN 49 ELSE 48>>)

BitStringRep(bits) == bit_str_loop(bit_set_of(bits), 0, <<>>)

(***************************************************************************)
(* OBJECT IDENTIFIER                                                       *)
(***************************************************************************)
OidOk(value) == Len(value) >= 2

\* the components after the first byte: base 128, high bit continues
RECURSIVE oid_components(_, _, _)
oid_components(bytes, component, open) ==
  IF bytes = <<>> THEN (IF open THEN <<component>> ELSE <<>>)
  ELSE LET c == component * 128 + (bytes[1] % 128) IN
       IF bytes[1] < 128
       THEN <<c>> \o oid_components(Tail(bytes), 0, FALSE)
       ELSE oid_components(Tail(bytes), c, TRUE)

decode_OID(value) ==
  <<value[1] \div 40, value[1] % 40>> \o oid_components(Tail(value), 0, FALSE)

RECURSIVE as_string(_)
as_string(oid) ==
  IF Len(oid) = 1 THEN to_chars(oid[1])
  ELSE to_chars(oid[1]) \o <<46>> \o as_string(Tail(oid))

\* the registry: rsaEncryption = 1.2.840.113549.1.1.1
RsaOid == <<1, 2, 840, 113549, 1, 1, 1>>
RsaName == <<114, 115, 97, 69, 110, 99, 114, 121, 112, 116, 105, 111, 110>>

OIDS_lookup(oid) == IF oid = RsaOid THEN RsaName ELSE as_string(oid)

\* lines 157-159
OidRep(oid) ==
  LET found == OIDS_lookup(oid) IN
  IF found # as_string(oid)
  THEN found \o <<32, 91>> \o as_string(oid) \o <<93>>
  ELSE found

(***************************************************************************)
(* Character strings                                                       *)
(***************************************************************************)
\* UTF-8 to Latin-1: one byte below 128, two bytes for 128..255, else fails
RECURSIVE utf8_ok(_)
utf8_ok(bytes) ==
  IF bytes = <<>> THEN TRUE
  ELSE IF bytes[1] < 128 THEN utf8_ok(Tail(bytes))
  ELSE bytes[1] >= 192 /\ bytes[1] <= 195 /\ Len(bytes) >= 2
       /\ bytes[2] >= 128 /\ bytes[2] < 192 /\ utf8_ok(Drop(bytes, 2))

RECURSIVE utf8_to_latin1(_)
utf8_to_latin1(bytes) ==
  IF bytes = <<>> THEN <<>>
  ELSE IF bytes[1] < 128 THEN <<bytes[1]>> \o utf8_to_latin1(Tail(bytes))
  ELSE <<(bytes[1] % 4) * 64 + (bytes[2] % 64)>> \o utf8_to_latin1(Drop(bytes, 2))

\* UCS-2 to Latin-1: pairs of bytes whose high byte is zero
ucs2_ok(bytes) ==
  Len(bytes) % 2 = 0 /\ \A j \in 1..Len(bytes) : j % 2 = 1 => bytes[j] = 0

ucs2_to_latin1(bytes) == [j \in 1..(Len(bytes) \div 2) |-> bytes[2 * j]]

latin1_to_utf8(bytes) ==
  Concat([j \in 1..Len(bytes) |->
            IF bytes[j] < 128 THEN <<bytes[j]>>
            ELSE <<192 + (bytes[j] \div 64), 128 + (bytes[j] % 64)>>])

StringOk(type_tag, value) ==
  IF type_tag = UTF8_STRING THEN utf8_ok(value)
  ELSE IF type_tag = BMP_STRING THEN ucs2_ok(value)
  ELSE TRUE

\* ASN1_String::iso_8859 of the decoded string
iso_8859(type_tag, value) ==
  IF type_tag = UTF8_STRING THEN utf8_to_latin1(value)
  ELSE IF type_tag = BMP_STRING THEN ucs2_to_latin1(value)
  ELSE value

\* lines 240-245
StringRep(type_tag, value) ==
  IF UTF8_TERMINAL # 0
  THEN latin1_to_utf8(iso_8859(type_tag, value))
  ELSE iso_8859(type_tag, value)

(***************************************************************************)
(* X509_Time                                                               *)
(***************************************************************************)
YearSize(type_tag) == IF type_tag = UTC_TIME THEN 2 ELSE 4

Num2(s, i) == (s[i] - 48) * 10 + (s[i + 1] - 48)

time_fields(type_tag, value) ==
  LET y == YearSize(type_tag)
      raw == IF y = 2 THEN Num2(value, 1) ELSE Num2(value, 1) * 100 + Num2(value, 3)
      year == IF type_tag = UTC_TIME
              THEN (IF raw >= 50 THEN 1900 + raw ELSE 2000 + raw)
              ELSE raw
  IN [year |-> year, month |-> Num2(value, y + 1), day |-> Num2(value, y + 3),
      hour |-> Num2(value, y + 5), minute |-> Num2(value, y + 7),
      second |-> IF Len(value) = y + 11 THEN Num2(value, y + 9) ELSE 0]

TimeOk(type_tag, value) ==
  LET y == YearSize(type_tag) IN
  /\ Len(value) \in {y + 9, y + 11}
  /\ value[Len(value)] = 90
  /\ \A j \in 1..(Len(value) - 1) : isdigit(value[j])
  /\ LET t == time_fields(type_tag, value) IN
     /\ t.year >= 1950
     /\ t.month >= 1 /\ t.month <= 12
     /\ t.day >= 1 /\ t.day <= 31
     /\ t.hour < 24 /\ t.minute <= 60 /\ t.second <= 60

Pad2(n) == <<48 + (n \div 10), 48 + (n % 10)>>

\* X509_Time::readable_string: "YYYY/MM/DD HH:MM:SS UTC"
readable_string(t) ==
  Pad2(t.year \div 100) \o Pad2(t.year % 100) \o <<47>> \o Pad2(t.month) \o <<47>>
  \o Pad2(t.day) \o <<32>> \o Pad2(t.hour) \o <<58>> \o Pad2(t.minute) \o <<58>>
  \o Pad2(t.second) \o <<32, 85, 84, 67>>

(***************************************************************************)
(* type_name and emit                                                      *)
(***************************************************************************)
type_name(type) ==
  IF type = PRINTABLE_STRING THEN "PRINTABLE STRING"
  ELSE IF type = NUMERIC_STRING THEN "NUMERIC STRING"
  ELSE IF type = IA5_STRING THEN "IA5 STRING"
  ELSE IF type = T61_STRING THEN "T61 STRING"
  ELSE IF type = UTF8_STRING THEN "UTF8 STRING"
  ELSE IF type = VISIBLE_STRING THEN "VISIBLE STRING"
  ELSE IF type = BMP_STRING THEN "BMP STRING"
  ELSE IF type = UTC_TIME THEN "UTC TIME"
  ELSE IF type = GENERALIZED_TIME THEN "GENERALIZED TIME"
  ELSE IF type = OCTET_STRING THEN "OCTET STRING"
  ELSE IF type = BIT_STRING THEN "BIT STRING"
  ELSE IF type = INTEGER THEN "INTEGER"
  ELSE IF type = NULL_TAG THEN "NULL"
  ELSE IF type = OBJECT_ID THEN "OBJECT"
  ELSE IF type = BOOLEAN_TAG THEN "BOOLEAN"
  ELSE "(UNKNOWN)"

\* the characters printf writes for %<w>d
Width(n, w) == IF Len(to_chars(n)) > w THEN Len(to_chars(n)) ELSE w

\* the limits taken as exclusive: >= in place of >
should_skip_at_limit(type, value) ==
  \/ Len(value) >= LIMIT
  \/ (type = "OCTET STRING" \/ type = "BIT STRING") /\ Len(value) >= BIN_LIMIT

\* lines 273-277
should_skip(type, value) ==
  \/ Len(value) > LIMIT
  \/ (type = "OCTET STRING" \/ type = "BIT STRING") /\ Len(value) > BIN_LIMIT

\* lines 267-271: what is written before the value
written(type, level, length) ==
  (4 + Width(level, 2) + 4 + Width(length, 4) + 2) + (level - INITIAL_LEVEL)
  + (Len(type) + 3)

\* lines 281-282: the blanks printed before the ":"
padding(w) ==
  (IF w % 2 = 0 THEN 1 ELSE 0) + (IF w < COLUMN THEN 2 * ((COLUMN - w + 1) \div 2) ELSE 0)

\* emit: the line printed; suffix is ":" and the value, or empty
emit(type, level, length, value) ==
  IF value # <<>> /\ ~should_skip(type, value)
  THEN [kind |-> "node", type |-> type, level |-> level, length |-> length,
        pad |-> padding(written(type, level, length)), suffix |-> <<58>> \o value]
  ELSE [kind |-> "node", type |-> type, level |-> level, length |-> length,
        pad |-> 0, suffix |-> <<>>]

(***************************************************************************)
(* decode: the dispatch of one object                                      *)
(***************************************************************************)
\* line 102
is_constructed(obj) == BitAnd(obj.class_tag, CONSTRUCTED) # 0

\* lines 119-132: the name of a constructed object that is no SEQUENCE or SET
cons_name(type_tag, class_tag) ==
  IF BitAnd(class_tag, APPLICATION) # 0 \/ BitAnd(class_tag, CONTEXT_SPECIFIC) # 0
     \/ BitAnd(class_tag, PRIVATE) # 0
  THEN "cons [" \o to_string(type_tag) \o "]"
       \o (IF BitAnd(class_tag, APPLICATION) # 0 THEN " appl" ELSE "")
       \o (IF BitAnd(class_tag, CONTEXT_SPECIFIC) # 0 THEN " context" ELSE "")
       \o (IF BitAnd(class_tag, PRIVATE) # 0 THEN " private" ELSE "")
  ELSE type_name(type_tag) \o " (cons)"

\* lines 105-136
container_name(obj) ==
  IF obj.type_tag = SEQUENCE THEN "SEQUENCE"
  ELSE IF obj.type_tag = SET THEN "SET"
  ELSE cons_name(obj.type_tag, obj.class_tag)

\* lines 94-100: bits is the object with its tag and length put back in front,
\* and data a decoder over bits
bits_of(obj) == add_object(obj.type_tag, obj.class_tag, obj.value)
data_of(obj) == get_next_object(bits_of(obj), 0).obj

\* lines 138-151: a primitive object of class APPLICATION, CONTEXT_SPECIFIC or PRIVATE
tagged_value(obj) == Pipe(not_text(bits_of(obj)), bits_of(obj))

Emit(type, value) == [kind |-> "emit", type |-> type, value |-> value]
Throw == [kind |-> "throw", type |-> "", value |-> <<>>]
Unknown == [kind |-> "unknown", type |-> "", value |-> <<>>]

StringTags == {PRINTABLE_STRING, NUMERIC_STRING, IA5_STRING, T61_STRING,
               VISIBLE_STRING, UTF8_STRING, BMP_STRING}

\* lines 138-255: the branch taken for a primitive object: a line to emit, an
\* exception of a value decoder, or the unknown-tag diagnostic
leaf(obj) ==
  LET type_tag == obj.type_tag
      class_tag == obj.class_tag
      v == data_of(obj).value
  IN IF class_tag = APPLICATION \/ class_tag = CONTEXT_SPECIFIC \/ class_tag = PRIVATE
     THEN Emit("[" \o to_string(type_tag) \o "]", tagged_value(obj))
     ELSE IF type_tag = OBJECT_ID
     THEN (IF OidOk(v) THEN Emit(type_name(type_tag), OidRep(decode_OID(v))) ELSE Throw)
     ELSE IF type_tag = INTEGER
     THEN Emit(type_name(type_tag), IntegerRep(decode_BigInt(v)))
     ELSE IF type_tag = BOOLEAN_TAG
     THEN (IF Len(v) = 1
           THEN Emit(type_name(type_tag),
                     IF v[1] # 0 THEN <<116, 114, 117, 101>> ELSE <<102, 97, 108, 115, 101>>)
           ELSE Throw)
     ELSE IF type_tag = NULL_TAG
     THEN Emit(type_name(type_tag), <<>>)
     ELSE IF type_tag = OCTET_STRING
     THEN Emit(type_name(type_tag), Pipe(not_text(v), v))
     ELSE IF type_tag = BIT_STRING
     THEN (IF BitStringOk(v)
           THEN Emit(type_name(type_tag), BitStringRep(decode_bits(v)))
           ELSE Throw)
     ELSE IF type_tag \in StringTags
     THEN (IF StringOk(type_tag, v)
           THEN Emit(type_name(type_tag), StringRep(type_tag, v))
           ELSE Throw)
     ELSE IF type_tag = UTC_TIME \/ type_tag = GENERALIZED_TIME
     THEN (IF TimeOk(type_tag, v)
           THEN Emit(type_name(type_tag), readable_string(time_fields(type_tag, v)))
           ELSE Throw)
     ELSE Unknown

(***************************************************************************)
(* The input files                                                         *)
(***************************************************************************)
Fill(b, n) == [j \in 1..n |-> b]

RECURSIVE SeqsUpTo(_, _)
SeqsUpTo(S, n) ==
  IF n = 0 THEN {<<>>}
  ELSE LET shorter == SeqsUpTo(S, n - 1) IN
       shorter \cup {<<b>> \o t : b \in S, t \in {u \in shorter : Len(u) = n - 1}}

Tlv(tag, value) == <<tag>> \o encode_length(Len(value)) \o value

\* the byte values of the enumerated primitive values
ByteAlphabet == {0, 1, 65, 128, 255}

\* objects whose display strings lie at LIMIT and BIN_LIMIT
LongSingles ==
  {Tlv(OCTET_STRING, Fill(b, n)) : b \in {1, 65}, n \in {31, 32, 33, 63, 64, 65}}
  \cup {Tlv(BIT_STRING, <<0>> \o Fill(1, n)) : n \in {7, 8, 9}}
  \cup {Tlv(INTEGER, Fill(1, n)) : n \in {63, 64, 65}}
  \cup {Tlv(PRINTABLE_STRING, Fill(65, n)) : n \in {127, 128, 129}}
  \cup {Tlv(t, Fill(65, n)) : t \in {APPLICATION + 1, CONTEXT_SPECIFIC},
                              n \in {61, 62, 63, 125, 126, 127}}

\* values at the limits of the claims: 65535 and 65536 with either sign, an OID
\* of the registry, two-byte UTF-8, UCS-2, text, times
PickedValues ==
  {<<0, 255, 255>>, <<1, 0, 0>>, <<255, 0, 0>>, <<255, 0, 1>>, <<0, 128, 0>>,
   <<6, 160>>, <<7, 255>>, <<42, 134, 72, 134, 247, 13, 1, 1, 1>>, <<85, 4, 3>>,
   <<195, 169>>, <<0, 65, 0, 66>>, <<97, 98, 99>>, <<97, 32, 98>>,
   <<57, 57, 49, 50, 51, 49, 50, 51, 53, 57, 53, 57, 90>>,
   <<50, 48, 52, 57, 49, 50, 51, 49, 50, 51, 53, 57, 53, 57, 90>>,
   <<52, 57, 49, 51, 48, 49, 48, 48, 48, 48, 90>>}

Values == SeqsUpTo(ByteAlphabet, MaxValLen) \cup PickedValues

\* tag bytes of primitive objects: universal types, and one of each other class
PrimTags ==
  {BOOLEAN_TAG, INTEGER, BIT_STRING, OCTET_STRING, NULL_TAG, OBJECT_ID, ENUMERATED,
   UTF8_STRING, NUMERIC_STRING, PRINTABLE_STRING, T61_STRING, IA5_STRING,
   VISIBLE_STRING, BMP_STRING, UTC_TIME, GENERALIZED_TIME,
   APPLICATION + 1, CONTEXT_SPECIFIC, PRIVATE + 2}

\* tag bytes of constructed objects
ConsTags ==
  {CONSTRUCTED + SEQUENCE, CONSTRUCTED + SET, CONSTRUCTED + OCTET_STRING,
   CONSTRUCTED + ENUMERATED, APPLICATION + CONSTRUCTED, CONTEXT_SPECIFIC + CONSTRUCTED,
   PRIVATE + CONSTRUCTED + 1, CONTEXT_SPECIFIC + CONSTRUCTED + SEQUENCE}

\* files of one object
Singles ==
  {Tlv(t, v) : t \in PrimTags, v \in Values}
  \cup {Tlv(t, k) : t \in ConsTags, k \in {<<>>, <<INTEGER, 1, 5>>}}
  \cup LongSingles

\* the primitive objects of the enumerated trees: two INTEGERs, a BOOLEAN with a
\* value of two bytes, an ENUMERATED, a context-specific "a", and an OCTET STRING
\* whose declared length exceeds every file
WalkLeaves ==
  {<<INTEGER, 1, 5>>, <<INTEGER, 1, 7>>, <<BOOLEAN_TAG, 2, 0, 0>>, <<ENUMERATED, 1, 0>>,
   <<CONTEXT_SPECIFIC, 1, 97>>, <<OCTET_STRING, 127, 0>>}

WalkCons == {CONSTRUCTED + SEQUENCE, CONTEXT_SPECIFIC + CONSTRUCTED}

\* the files that hold exactly n objects, nested ones counted
RECURSIVE ForestN(_)
ForestN(n) ==
  IF n = 0 THEN {<<>>}
  ELSE UNION {
         {a \o b : a \in (IF k = 1 THEN WalkLeaves ELSE {})
                          \cup {Tlv(t, kids) : t \in WalkCons, kids \in ForestN(k - 1)},
                   b \in ForestN(n - k)} : k \in 1..n}

Walks == UNION {ForestN(n) : n \in 0..MaxNodes}

IntObj(n) == <<INTEGER, 1, n>>
SeqObj(kids) == Tlv(CONSTRUCTED + SEQUENCE, kids)

\* larger files: SEQUENCEs of INTEGERs with a sibling, deeper nesting, a file cut short
Samples ==
  {SeqObj(IntObj(1) \o IntObj(2) \o IntObj(3)) \o IntObj(4),
   SeqObj(<<>>) \o SeqObj(IntObj(1) \o IntObj(2)) \o SeqObj(IntObj(3)),
   SeqObj(SeqObj(SeqObj(IntObj(1) \o IntObj(2)) \o IntObj(3)) \o <<ENUMERATED, 1, 0>> \o IntObj(4)),
   SeqObj(IntObj(1) \o SeqObj(IntObj(2) \o <<OCTET_STRING, 127, 0>>) \o IntObj(3)) \o IntObj(4),
   SeqObj(IntObj(1) \o <<BOOLEAN_TAG, 2, 0, 0>> \o IntObj(2)) \o IntObj(3),
   IntObj(1) \o <<INTEGER>>,
   SeqObj(IntObj(1) \o IntObj(2)) \o <<CONSTRUCTED + SEQUENCE, 3, INTEGER, 1>>}

Inputs == Walks \cup Singles \cup Samples

(***************************************************************************)
(* The program: main, and decode as frames of a call stack                 *)
(***************************************************************************)
Frame(stream, level) ==
  [stream |-> stream, pos |-> 0, level |-> level, st |-> "scan", obj |-> NoObject]

Top == stack[Len(stack)]
Pop == SubSeq(stack, 1, Len(stack) - 1)
SetTop(f) == [stack EXCEPT ![Len(stack)] = f]

\* the objects that follow position pos in a stream
RECURSIVE CountObjects(_, _)
CountObjects(stream, pos) ==
  LET r == get_next_object(stream, pos) IN
  IF r.kind = "obj" THEN 1 + CountObjects(stream, r.pos) ELSE 0

Ghosts == <<outAtThrow, readAtThrow, sibsAtThrow>>

Init ==
  /\ input \in Inputs
  /\ pc = "main"
  /\ stack = <<>>
  /\ out = <<>>
  /\ err = <<>>
  /\ exitcode = -1
  /\ exc = "none"
  /\ visited = <<>>
  /\ src = <<>>
  /\ outAtThrow = <<>>
  /\ readAtThrow = 0
  /\ sibsAtThrow = 0
  /\ steps = 0

\* main, lines 60-67: a decoder over the file, decode(decoder, INITIAL_LEVEL)
MainDecode ==
  /\ pc = "main"
  /\ pc' = "decode"
  /\ stack' = <<Frame(input, INITIAL_LEVEL)>>
  /\ steps' = steps + 1
  /\ UNCHANGED <<input, out, err, exitcode, exc, visited, src, Ghosts>>

\* lines 86 and 257: get_next_object returns an object
ScanObject ==
  /\ pc = "decode" /\ Top.st = "scan"
  /\ LET r == get_next_object(Top.stream, Top.pos) IN
     /\ r.kind = "obj"
     /\ stack' = SetTop([Top EXCEPT !.pos = r.pos, !.obj = r.obj, !.st = "loop"])
     /\ visited' = Append(visited, [obj |-> r.obj, level |-> Top.level])
  /\ steps' = steps + 1
  /\ UNCHANGED <<input, pc, out, err, exitcode, exc, src, Ghosts>>

\* lines 86 and 257: get_next_object finds the stream at its end
ScanEnd ==
  /\ pc = "decode" /\ Top.st = "scan"
  /\ get_next_object(Top.stream, Top.pos).kind = "none"
  /\ stack' = SetTop([Top EXCEPT !.obj = NoObject, !.st = "loop"])
  /\ steps' = steps + 1
  /\ UNCHANGED <<input, pc, out, err, exitcode, exc, visited, src, Ghosts>>

\* lines 86 and 257: get_next_object throws BER_Decoding_Error
ScanThrow ==
  /\ pc = "decode" /\ Top.st = "scan"
  /\ get_next_object(Top.stream, Top.pos).kind = "error"
  /\ exc' = "BER_Decoding_Error"
  /\ pc' = "unwind"
  /\ outAtThrow' = out
  /\ readAtThrow' = Len(visited)
  /\ sibsAtThrow' = 0
  /\ steps' = steps + 1
  /\ UNCHANGED <<input, stack, out, err, exitcode, visited, src>>

\* an object without content taken for the end of the stream
loop_done_on_empty(obj) == obj.type_tag = NO_OBJECT \/ Len(obj.value) = 0

\* line 88
loop_done(obj) == obj.type_tag = NO_OBJECT

\* lines 88 and 259: the loop ends and a nested decode returns to its caller
LoopExit ==
  /\ pc = "decode" /\ Top.st = "loop" /\ loop_done(Top.obj)
  /\ Len(stack) > 1
  /\ stack' = Pop
  /\ steps' = steps + 1
  /\ UNCHANGED <<input, pc, out, err, exitcode, exc, visited, src, Ghosts>>

\* lines 66 and 81: the outermost decode returns and main returns 0
MainReturn ==
  /\ pc = "decode" /\ Top.st = "loop" /\ loop_done(Top.obj)
  /\ Len(stack) = 1
  /\ stack' = <<>>
  /\ pc' = "exit"
  /\ exitcode' = 0
  /\ steps' = steps + 1
  /\ UNCHANGED <<input, out, err, exc, visited, src, Ghosts>>

\* the nested decode called with level in place of level+1
EmitContainerSameLevel ==
  /\ pc = "decode" /\ Top.st = "loop" /\ ~loop_done(Top.obj)
  /\ is_constructed(Top.obj)
  /\ out' = Append(out, emit(container_name(Top.obj), Top.level, Len(Top.obj.value), <<>>))
  /\ src' = Append(src, Len(visited))
  /\ stack' = Append(SetTop([Top EXCEPT !.st = "scan"]), Frame(Top.obj.value, Top.level))
  /\ steps' = steps + 1
  /\ UNCHANGED <<input, pc, err, exitcode, exc, visited, Ghosts>>

\* lines 102-137: a constructed object: its line, then decode(cons_info, level+1)
EmitContainer ==
  /\ pc = "decode" /\ Top.st = "loop" /\ ~loop_done(Top.obj)
  /\ is_constructed(Top.obj)
  /\ out' = Append(out, emit(container_name(Top.obj), Top.level, Len(Top.obj.value), <<>>))
  /\ src' = Append(src, Len(visited))
  /\ stack' = Append(SetTop([Top EXCEPT !.st = "scan"]), Frame(Top.obj.value, Top.level + 1))
  /\ steps' = steps + 1
  /\ UNCHANGED <<input, pc, err, exitcode, exc, visited, Ghosts>>

\* lines 138-252: a primitive object whose value decodes: its line
EmitLeaf ==
  /\ pc = "decode" /\ Top.st = "loop" /\ ~loop_done(Top.obj)
  /\ ~is_constructed(Top.obj)
  /\ LET r == leaf(Top.obj) IN
     /\ r.kind = "emit"
     /\ out' = Append(out, emit(r.type, Top.level, Len(Top.obj.value), r.value))
  /\ src' = Append(src, Len(visited))
  /\ stack' = SetTop([Top EXCEPT !.st = "scan"])
  /\ steps' = steps + 1
  /\ UNCHANGED <<input, pc, err, exitcode, exc, visited, Ghosts>>

\* the unknown object also given a line on stdout
UnknownTagPrinted ==
  /\ pc = "decode" /\ Top.st = "loop" /\ ~loop_done(Top.obj)
  /\ ~is_constructed(Top.obj)
  /\ leaf(Top.obj).kind = "unknown"
  /\ err' = Append(err, [class |-> Top.obj.class_tag, type |-> Top.obj.type_tag])
  /\ out' = Append(out, emit(type_name(Top.obj.type_tag), Top.level, Len(Top.obj.value), <<>>))
  /\ src' = Append(src, Len(visited))
  /\ stack' = SetTop([Top EXCEPT !.st = "scan"])
  /\ steps' = steps + 1
  /\ UNCHANGED <<input, pc, exitcode, exc, visited, Ghosts>>

\* lines 253-255: no branch knows the object: a line on stderr
UnknownTag ==
  /\ pc = "decode" /\ Top.st = "loop" /\ ~loop_done(Top.obj)
  /\ ~is_constructed(Top.obj)
  /\ leaf(Top.obj).kind = "unknown"
  /\ err' = Append(err, [class |-> Top.obj.class_tag, type |-> Top.obj.type_tag])
  /\ stack' = SetTop([Top EXCEPT !.st = "scan"])
  /\ steps' = steps + 1
  /\ UNCHANGED <<input, pc, out, exitcode, exc, visited, src, Ghosts>>

\* lines 155, 185, 210, 239, 250: a value decoder throws
ValueThrow ==
  /\ pc = "decode" /\ Top.st = "loop" /\ ~loop_done(Top.obj)
  /\ ~is_constructed(Top.obj)
  /\ leaf(Top.obj).kind = "throw"
  /\ exc' = "Decoding_Error"
  /\ pc' = "unwind"
  /\ outAtThrow' = out
  /\ readAtThrow' = Len(visited)
  /\ sibsAtThrow' = CountObjects(Top.stream, Top.pos)
  /\ steps' = steps + 1
  /\ UNCHANGED <<input, stack, out, err, exitcode, visited, src>>

\* a handler in decode: the exception ends the nested decode only, and the
\* caller goes on with its next object
UnwindHandled ==
  /\ pc = "unwind" /\ stack # <<>>
  /\ stack' = Pop
  /\ pc' = IF Len(stack) > 1 THEN "decode" ELSE "unwind"
  /\ steps' = steps + 1
  /\ UNCHANGED <<input, out, err, exitcode, exc, visited, src, Ghosts>>

\* decode has no handler: the exception leaves one frame of decode
Unwind ==
  /\ pc = "unwind" /\ stack # <<>>
  /\ stack' = Pop
  /\ steps' = steps + 1
  /\ UNCHANGED <<input, pc, out, err, exitcode, exc, visited, src, Ghosts>>

\* lines 76-80: main catches, prints e.what() and returns 1
MainCatch ==
  /\ pc = "unwind" /\ stack = <<>>
  /\ out' = Append(out, [kind |-> "what", type |-> exc, level |-> 0, length |-> 0,
                         pad |-> 0, suffix |-> <<>>])
  /\ src' = Append(src, 0)
  /\ exitcode' = 1
  /\ pc' = "exit"
  /\ steps' = steps + 1
  /\ UNCHANGED <<input, stack, err, exc, visited, Ghosts>>

Next ==
  \/ MainDecode
  \/ ScanObject
  \/ ScanEnd
  \/ ScanThrow
  \/ LoopExit
  \/ MainReturn
  \/ EmitContainer
  \/ EmitLeaf
  \/ UnknownTag
  \/ ValueThrow
  \/ Unwind
  \/ MainCatch

Spec == Init /\ [][Next]_vars

(***************************************************************************)
(* Reference notions the properties are stated with                        *)
(***************************************************************************)
\* the objects of a stream in depth-first order, each with its depth
RECURSIVE Preorder(_, _, _)
Preorder(stream, pos, level) ==
  LET r == get_next_object(stream, pos) IN
  IF r.kind # "obj" THEN <<>>
  ELSE <<[obj |-> r.obj, level |-> level]>>
       \o (IF r.obj.class_tag \in {32, 96, 160, 224}
           THEN Preorder(r.obj.value, 0, level + 1) ELSE <<>>)
       \o Preorder(stream, r.pos, level)

\* the objects of one stream, not descending
RECURSIVE Children(_, _)
Children(stream, pos) ==
  LET r == get_next_object(stream, pos) IN
  IF r.kind # "obj" THEN <<>> ELSE <<r.obj>> \o Children(stream, r.pos)

\* how the scan of one stream ends: "none" or "error"
RECURSIVE StreamEnd(_, _)
StreamEnd(stream, pos) ==
  LET r == get_next_object(stream, pos) IN
  IF r.kind # "obj" THEN r.kind ELSE StreamEnd(stream, r.pos)

IsCons(obj) == obj.class_tag \in {32, 96, 160, 224}
IsTaggedPrim(obj) == obj.class_tag \in {64, 128, 192}
KnownUniversal == {1, 2, 3, 4, 5, 6, 12, 18, 19, 20, 22, 23, 24, 26, 30}
Unrecognized(obj) == obj.class_tag = 0 /\ obj.type_tag \notin KnownUniversal

\* every header parses, at every depth, and every primitive value decodes
RECURSIVE WellFormed(_)
WellFormed(stream) ==
  /\ StreamEnd(stream, 0) = "none"
  /\ \A k \in 1..Len(Children(stream, 0)) :
       LET o == Children(stream, 0)[k] IN
       IF IsCons(o) THEN WellFormed(o.value) ELSE leaf(o).kind # "throw"

NodeOf(i) == visited[src[i]]
NodeLines == {i \in 1..Len(out) : out[i].kind = "node"}
Exited == pc = "exit"

(***************************************************************************)
(* C1                                                                      *)
(***************************************************************************)
WhatLine(e) ==
  [kind |-> "what", type |-> e, level |-> 0, length |-> 0, pad |-> 0, suffix |-> <<>>]

\* C1: once get_next_object has thrown, at any depth, the decode is over: no
\* frame of decode handles the exception, nothing more is read, no node line is
\* added, the lines printed before stay as they were, and the program ends in
\* main's handler with the diagnostic and exit code 1.
C1_ScannerFailureAborts ==
  exc = "BER_Decoding_Error" =>
    /\ pc \in {"unwind", "exit"}
    /\ Len(visited) = readAtThrow
    /\ {i \in NodeLines : i > Len(outAtThrow)} = {}
    /\ SubSeq(out, 1, Len(outAtThrow)) = outAtThrow
    /\ pc = "unwind" => out = outAtThrow /\ ENABLED Next
    /\ Exited => /\ stack = <<>>
                 /\ exitcode = 1
                 /\ out = Append(outAtThrow, WhatLine("BER_Decoding_Error"))

NestedFailure ==
  SeqObj(IntObj(1) \o SeqObj(IntObj(2) \o <<OCTET_STRING, 127, 0>>) \o IntObj(3)) \o IntObj(4)

C1_Witness ==
  /\ input = NestedFailure
  /\ Exited /\ exc = "BER_Decoding_Error" /\ exitcode = 1
  /\ Len(out) = 5 /\ out[4].type = "INTEGER" /\ out[4].level = 2 /\ out[5].kind = "what"

(***************************************************************************)
(* C2                                                                      *)
(***************************************************************************)
IsIntegerObj(o) == o.class_tag = 0 /\ o.type_tag = 2

\* a universal constructed SEQUENCE whose window is INTEGERs and nothing else
IsIntSequence(o) ==
  /\ o.class_tag = 32 /\ o.type_tag = 16
  /\ StreamEnd(o.value, 0) = "none"
  /\ \A k \in 1..Len(Children(o.value, 0)) : IsIntegerObj(Children(o.value, 0)[k])

\* C2: the line of a SEQUENCE of N INTEGERs at depth d is one container line at
\* depth d; the next N lines are its children's leaf lines, at depth d+1 and in
\* stream order; the line after them is not at depth d+1 or deeper; and a
\* decode that returns has printed all N.
C2_SequenceOfIntegers ==
  \A i \in NodeLines :
    IsIntSequence(NodeOf(i).obj) =>
      LET kids == Children(NodeOf(i).obj.value, 0)
          N == Len(kids)
          d == NodeOf(i).level
      IN /\ out[i].type = "SEQUENCE" /\ out[i].level = d /\ out[i].suffix = <<>>
         /\ out[i].length = Len(NodeOf(i).obj.value)
         /\ \A j \in NodeLines : src[j] = src[i] => j = i
         /\ \A k \in 1..N :
              i + k <= Len(out) =>
                /\ out[i + k].kind = "node"
                /\ out[i + k].type = "INTEGER"
                /\ out[i + k].level = d + 1
                /\ out[i + k].length = Len(kids[k].value)
                /\ src[i + k] = src[i] + k
                /\ NodeOf(i + k).obj = kids[k]
         /\ i + N + 1 <= Len(out) =>
              out[i + N + 1].kind = "what" \/ out[i + N + 1].level <= d
         /\ (Exited /\ exitcode = 0) => i + N <= Len(out)

C2_Witness ==
  /\ input = SeqObj(IntObj(1) \o IntObj(2) \o IntObj(3)) \o IntObj(4)
  /\ Exited /\ exitcode = 0
  /\ Len(out) = 5
  /\ out[1].type = "SEQUENCE" /\ out[4].level = 1 /\ out[5].level = 0
  /\ out[4].suffix = <<58, 51>>

(***************************************************************************)
(* C3                                                                      *)
(***************************************************************************)
\* C3: when the value of one primitive object fails to decode, the siblings
\* that follow it in its stream are still read: at the end of the run the
\* scanner has returned every one of them.
C3_SiblingsAfterValueFailure ==
  (Exited /\ exc = "Decoding_Error") => Len(visited) >= readAtThrow + sibsAtThrow

(***************************************************************************)
(* C4                                                                      *)
(***************************************************************************)
\* the object in hand that has no line yet
Pending ==
  IF \/ exc = "Decoding_Error"
     \/ (pc = "decode" /\ Top.st = "loop" /\ Top.obj.type_tag # 65280)
  THEN 1 ELSE 0

Indices(n) == [i \in 1..n |-> i]
IsRecognized(i) == ~Unrecognized(visited[i].obj)
IsUnrecognized(i) == Unrecognized(visited[i].obj)
IsNodeSrc(i) == i # 0

\* C4: an object no branch recognizes gets one line on stderr and none on
\* stdout, and raises nothing: the node lines are, in order, the lines of
\* exactly the recognized objects handled so far, each at its own depth and
\* with its own length, and stderr holds exactly the unrecognized ones.
C4_UnknownTagSkipped ==
  LET handled == Len(visited) - Pending IN
  /\ SelectSeq(src, IsNodeSrc) = SelectSeq(Indices(handled), IsRecognized)
  /\ LET unknown == SelectSeq(Indices(handled), IsUnrecognized) IN
     /\ Len(err) = Len(unknown)
     /\ \A k \in 1..Len(err) :
          /\ err[k].type = visited[unknown[k]].obj.type_tag
          /\ err[k].class = visited[unknown[k]].obj.class_tag
  /\ \A i \in NodeLines :
       /\ out[i].level = NodeOf(i).level
       /\ out[i].length = Len(NodeOf(i).obj.value)
  /\ (Exited /\ exc = "none") => exitcode = 0

C4_Witness ==
  /\ input = SeqObj(SeqObj(SeqObj(IntObj(1) \o IntObj(2)) \o IntObj(3))
                    \o <<ENUMERATED, 1, 0>> \o IntObj(4))
  /\ Exited /\ exitcode = 0
  /\ Len(err) = 1 /\ err[1].type = 10
  /\ Len(visited) = 8 /\ Len(out) = 7
  /\ out[7].type = "INTEGER" /\ out[7].level = 1 /\ out[7].suffix = <<58, 52>>

(***************************************************************************)
(* C5                                                                      *)
(***************************************************************************)
IsText(bytes) ==
  \A j \in 1..Len(bytes) :
    (bytes[j] >= 33 /\ bytes[j] <= 126) \/ bytes[j] = 32 \/ (bytes[j] >= 9 /\ bytes[j] <= 13)

HexChar(d) == IF d < 10 THEN 48 + d ELSE 55 + d
HexText(bytes) ==
  [i \in 1..(2 * Len(bytes)) |->
     IF i % 2 = 1 THEN HexChar(bytes[(i + 1) \div 2] \div 16)
     ELSE HexChar(bytes[i \div 2] % 16)]

Printed(d, limit) == IF d # <<>> /\ Len(d) <= limit THEN <<58>> \o d ELSE <<>>

\* C5: the line of a primitive object of class APPLICATION, CONTEXT_SPECIFIC or
\* PRIVATE is labelled "[<type_tag>]" and shows the value bytes alone: as text
\* if every value byte is printable or white space, in hexadecimal otherwise.
C5_TaggedPrimitiveFromValueOnly ==
  \A i \in NodeLines :
    IsTaggedPrim(NodeOf(i).obj) =>
      LET v == NodeOf(i).obj.value
          d == IF IsText(v) THEN v ELSE HexText(v)
      IN /\ out[i].type = "[" \o ToString(NodeOf(i).obj.type_tag) \o "]"
         /\ out[i].suffix = Printed(d, 128)

(***************************************************************************)
(* C6                                                                      *)
(***************************************************************************)
\* the two's complement value of up to four bytes
RECURSIVE SignedFrom(_, _)
SignedFrom(acc, bytes) ==
  IF bytes = <<>> THEN acc ELSE SignedFrom(acc * 256 + bytes[1], Tail(bytes))

Signed(v) ==
  IF v = <<>> THEN 0
  ELSE SignedFrom(IF v[1] >= 128 THEN v[1] - 256 ELSE v[1], Tail(v))

RECURSIVE DecimalText(_)
DecimalText(n) ==
  IF n < 10 THEN <<48 + n>> ELSE DecimalText(n \div 10) \o <<48 + (n % 10)>>

IsHexChar(c) == (c >= 48 /\ c <= 57) \/ (c >= 65 /\ c <= 70)
HexCharValue(c) == IF c <= 57 THEN c - 48 ELSE c - 55

\* the number a hexadecimal string denotes, with the given sign (1 or -1)
RECURSIVE HexValue(_, _, _)
HexValue(acc, s, sign) ==
  IF s = <<>> THEN acc
  ELSE HexValue(acc * 16 + sign * HexCharValue(s[1]), Tail(s), sign)

IsHexOf(s, n) ==
  /\ Len(s) % 2 = 0 /\ Len(s) >= 2
  /\ \A j \in 1..Len(s) : IsHexChar(s[j])
  /\ ~(s[1] = 48 /\ s[2] = 48)
  /\ HexValue(0, s, IF n < 0 THEN -1 ELSE 1) = n

\* C6: the line of a primitive universal INTEGER shows the magnitude in decimal
\* when it is at most 65535 (16 bits), whatever the sign, and in hexadecimal
\* when it is 65536 or more.  Values of more than four bytes are covered when
\* their first byte is no sign extension, so that the magnitude exceeds 16 bits.
C6_IntegerDecimalOrHex ==
  \A i \in NodeLines :
    (~IsCons(NodeOf(i).obj) /\ IsIntegerObj(NodeOf(i).obj)) =>
      LET v == NodeOf(i).obj.value
          shown == Drop(out[i].suffix, 1)
      IN /\ out[i].type = "INTEGER"
         /\ Len(v) <= 4 =>
              LET n == Signed(v) IN
              /\ out[i].suffix # <<>> /\ out[i].suffix[1] = 58
              /\ IF n >= -65535 /\ n <= 65535
                 THEN shown = DecimalText(IF n < 0 THEN -n ELSE n)
                 ELSE IsHexOf(shown, n)
         /\ (Len(v) > 4 /\ v[1] \notin {0, 255}) =>
              /\ Len(v) <= 64 => out[i].suffix # <<>>
              /\ out[i].suffix # <<>> =>
                   /\ Len(shown) = 2 * Len(v)
                   /\ \A j \in 1..Len(shown) : IsHexChar(shown[j])

C6_Witness ==
  /\ input = <<INTEGER, 3, 0, 255, 255>>
  /\ Exited /\ exitcode = 0
  /\ out = <<[kind |-> "node", type |-> "INTEGER", level |-> 0, length |-> 3,
              pad |-> 25, suffix |-> <<58, 54, 53, 53, 51, 53>>]>>

(***************************************************************************)
(* C7                                                                      *)
(***************************************************************************)
\* The spec's algorithm unrolled: L[8j+k] is bit 7-k of B[n-1-j], and the display
\* reads L from its last index down, so display position t (from 0) is bit
\* t mod 8, counted from the least significant, of byte t div 8.
AllBits(B) ==
  [i \in 1..(8 * Len(B)) |->
     48 + ((B[1 + ((i - 1) \div 8)] \div Pow2((i - 1) % 8)) % 2)]

Ones(s) == {i \in 1..Len(s) : s[i] = 49}
Least(S) == CHOOSE x \in S : \A y \in S : x <= y
SkipZeros(s) == IF Ones(s) = {} THEN <<>> ELSE SubSeq(s, Least(Ones(s)), Len(s))

\* C7: the line of a primitive BIT STRING with decoded bytes B shows the bits of
\* the spec's bit-ordering algorithm without leading zeros: never a string that
\* starts with "0", and the empty string exactly when every byte of B is zero.
C7_BitStringDisplay ==
  \A i \in NodeLines :
    (NodeOf(i).obj.class_tag = 0 /\ NodeOf(i).obj.type_tag = 3) =>
      LET B == Tail(NodeOf(i).obj.value)
          d == SkipZeros(AllBits(B))
      IN /\ out[i].type = "BIT STRING"
         /\ out[i].suffix = Printed(d, 64)
         /\ out[i].suffix # <<>> => out[i].suffix[2] = 49
         /\ (\A j \in 1..Len(B) : B[j] = 0) => out[i].suffix = <<>>
         /\ (out[i].suffix = <<>> /\ Len(B) <= 8) => \A j \in 1..Len(B) : B[j] = 0

C7_Witness ==
  /\ input = <<BIT_STRING, 2, 6, 160>>
  /\ Exited /\ exitcode = 0
  /\ Len(out) = 1 /\ out[1].type = "BIT STRING" /\ out[1].suffix = <<58, 49, 48, 49>>

(***************************************************************************)
(* C8                                                                      *)
(***************************************************************************)
\* the display string decode hands to emit for a line
Display(i) == IF IsCons(NodeOf(i).obj) THEN <<>> ELSE leaf(NodeOf(i).obj).value

\* C8: emit prints ":" and the display string exactly when the string is not
\* empty, has at most 128 characters and, under the labels "OCTET STRING" and
\* "BIT STRING", at most 64; otherwise it prints the label line alone.
C8_EmitTruncation ==
  \A i \in NodeLines :
    LET d == Display(i)
        binary == out[i].type = "OCTET STRING" \/ out[i].type = "BIT STRING"
    IN /\ out[i].suffix # <<>> <=>
            (d # <<>> /\ Len(d) <= 128 /\ (binary => Len(d) <= 64))
       /\ out[i].suffix # <<>> => out[i].suffix = <<58>> \o d
       /\ out[i].suffix = <<>> => out[i].pad = 0

C8_Witness ==
  /\ input = Tlv(OCTET_STRING, Fill(65, 64))
  /\ Exited /\ exitcode = 0
  /\ Len(out) = 1 /\ out[1].type = "OCTET STRING"
  /\ out[1].suffix = <<58>> \o Fill(65, 64)

(***************************************************************************)
(* C9                                                                      *)
(***************************************************************************)
\* C9: decode terminates.  Every step before the exit is a step of main or of a
\* frame of decode, and the number of steps is bounded by the length of the
\* input; a frame leaves its loop only
\* with its cursor at the end of its stream; each object read lies wholly
\* before the cursor; each nested frame works on a window shorter than its
\* caller's stream, one level deeper; and on a well-formed input the run ends
\* with exit code 0 and every object of the stream visited once, in order.
C9_Terminates ==
  /\ ~Exited => pc \in {"main", "decode", "unwind"} /\ (pc = "decode" => stack # <<>>)
  /\ 2 * steps <= 8 + 5 * Len(input)
  /\ \A k \in 1..Len(stack) :
       LET f == stack[k] IN
       /\ f.pos <= Len(f.stream)
       /\ (f.st = "loop" /\ f.obj.type_tag = 65280 /\ exc = "none") => f.pos = Len(f.stream)
       /\ (f.obj.type_tag # 65280) =>
            /\ f.pos >= 2 + Len(f.obj.value)
            /\ SubSeq(f.stream, f.pos - Len(f.obj.value) + 1, f.pos) = f.obj.value
       /\ k > 1 => /\ Len(f.stream) < Len(stack[k - 1].stream)
                   /\ f.stream = stack[k - 1].obj.value
                   /\ f.level = stack[k - 1].level + 1
  /\ (Exited /\ WellFormed(input)) =>
       /\ exitcode = 0 /\ exc = "none" /\ stack = <<>>
       /\ visited = Preorder(input, 0, 0)

C9_Witness ==
  /\ input = SeqObj(<<>>) \o SeqObj(IntObj(1) \o IntObj(2)) \o SeqObj(IntObj(3))
  /\ Exited /\ exitcode = 0
  /\ Len(visited) = 6 /\ steps = 21

(***************************************************************************)
(* C10                                                                     *)
(***************************************************************************)
ClassName(c) ==
  IF c = 64 THEN " appl" ELSE IF c = 128 THEN " context" ELSE " private"

\* C10: the line of a constructed object of class APPLICATION, CONTEXT_SPECIFIC
\* or PRIVATE is labelled "cons [<type_tag>]" and the name of that class, and of
\* no other; a constructed universal object that is no SEQUENCE or SET is
\* labelled "<type name> (cons)".
C10_ConstructedLabel ==
  \A i \in NodeLines :
    LET o == NodeOf(i).obj IN
    IsCons(o) =>
      IF o.class_tag = 32
      THEN (o.type_tag \notin {16, 17} => out[i].type = type_name(o.type_tag) \o " (cons)")
      ELSE out[i].type = "cons [" \o ToString(o.type_tag) \o "]" \o ClassName(o.class_tag - 32)

====
